---- MODULE Spec2Model ----
(***************************************************************************)
(* A model of the numerical core of pyseis: the catalogue inversion        *)
(* (fmi_inversion), the catalogue builder (fmi_spectra, fmi_parameters),   *)
(* the forward models (model_turbulence, model_bedload), the amplitude     *)
(* locator (spatial_amplitude, spatial_pmax) and the distance maps         *)
(* (spatial_distance).                                                     *)
(*                                                                         *)
(* Floating point values are modelled by naturals plus the distinguished   *)
(* value NaN; every arithmetic operator propagates NaN as numpy does.      *)
(***************************************************************************)
EXTENDS Integers, Sequences, FiniteSets, TLC

\* ---------------------------------------------------------------- bounds
MaxEntries == 2   \* catalogue entries
MaxCols == 2      \* columns of the data matrix
MaxParams == 2    \* parameter sets handed to fmi_spectra
MaxStations == 2  \* stations of one model_fun evaluation
GridWidth == 2    \* columns of the goodness raster
DemRows == 3      \* rows of the largest terrain grid
DemCols == 3      \* columns of the largest terrain grid
MaxSets == 2      \* parameter sets drawn by fmi_parameters
MaxRes == 2       \* largest res of a forward-model call
MaxDiam == 2      \* points of the grain-diameter grid

\* np.nan: a value outside the naturals that stand for the finite floats
NaN == -1
\* mod_best of an invalid column (fmi_inversion.py:68)
NoMatch == -1

\* the frequency axis (two bins) and the finite sample values
Freqs == {1, 2}
Vals == {0, 1}
CoreChoices == {1, 2}

VARIABLES
    reference,   \* fmi_inversion: the catalogue, a sequence of [power, pars]
    data,        \* fmi_inversion: the data matrix, a sequence of columns
    n_cores,     \* fmi_inversion: the requested worker count
    inversion,   \* fmi_inversion: the list of process_spectrum results
    outcome,     \* fmi_inversion: what the call did (returned / raised)
    pc,          \* fmi_inversion: position of the call
    parameters,  \* fmi_spectra: the list of parameter sets
    models,      \* fmi_spectra: what the two forward models return per set
    spectra,     \* fmi_spectra: the catalogue returned
    n_cores_s,   \* fmi_spectra: the requested worker count
    futures,     \* fmi_spectra: the state of every submitted evaluation
    finish_order, \* fmi_spectra: the indices in the order the workers finish
    collected,   \* fmi_spectra: the list that list(executor.map(...)) builds
    outcomeS,    \* fmi_spectra: returned / raised
    pcS,         \* fmi_spectra: position of the call
    fitArgs,     \* model_fun: its arguments (params, d, a_d)
    residual,    \* model_fun: the residual vector it returns
    pcF,         \* model_fun: position of the evaluation
    d_map,       \* spatial_amplitude: station distances of every cell
    px_ok,       \* spatial_amplitude: the AOI mask
    a_d,         \* spatial_amplitude: coupling-corrected peak amplitudes
    output,      \* spatial_amplitude: the output mode
    normalise,   \* spatial_amplitude: the normalise flag
    fit,         \* spatial_amplitude: what least_squares ends with
    results,     \* spatial_amplitude: the list pool.map returns
    fitted,      \* spatial_amplitude: the cells least_squares was run for
    r,           \* spatial_amplitude: the goodness raster
    outcomeA,    \* spatial_amplitude: returned / raised
    pcA,         \* spatial_amplitude: position of the call
    cpu,         \* spatial_amplitude: the cpu argument, <<>> for None
    cpu_count,   \* spatial_amplitude: what mp.cpu_count() returns
    cores,       \* spatial_amplitude: the size the pool is created with
    stations,    \* spatial_distance: station coordinates <<x, y>>
    dem,         \* spatial_distance: the terrain grid [shape, z]
    topography,  \* spatial_distance: the topography flag
    aoi,         \* spatial_distance: the AOI box <<x0, x1, y0, y1>> or <<>>
    fl_low,      \* spatial_distance: the lines np.linspace rounds below
    maps_data,   \* spatial_distance: one distance map per station
    M,           \* spatial_distance: the station distance matrix
    outcomeD,    \* spatial_distance: returned / the error raised
    pcD,         \* spatial_distance: position of the call
    pmax_data,   \* spatial_pmax: the argument [kind, raster]
    max_locations, \* spatial_pmax: the list returned
    outcomeP,    \* spatial_pmax: returned / the error raised
    pcP,         \* spatial_pmax: position of the call
    n_sets,      \* fmi_parameters: the argument n
    pars_template, \* fmi_parameters: the template dictionary
    pars_reference, \* fmi_parameters: the list built and returned
    pcFP,        \* fmi_parameters: position of the call
    fm_call,     \* forward models: the function called and its arguments
    d_s,         \* model_bedload: the mean grain diameter in use
    x_log,       \* model_bedload: the grain-diameter support
    p_s,         \* model_bedload: the grain-size densities on x_log
    h_b,         \* model_bedload: the hop heights used
    u_b,         \* model_bedload: the hop velocities used
    frequency,   \* forward models: the frequency column built
    psd_f,       \* forward models: the power column built
    outcomeM,    \* forward models: returned / the error raised
    pcM          \* forward models: position of the call

invVars == <<reference, data, n_cores, inversion, outcome, pc>>
spectraVars == <<parameters, models, spectra, n_cores_s, futures, finish_order, collected, outcomeS, pcS>>
fitVars == <<fitArgs, residual, pcF>>
ampIn == <<d_map, px_ok, a_d, output, normalise, fit, cpu, cpu_count>>
ampVars == <<ampIn, cores, results, fitted, r, outcomeA, pcA>>
distIn == <<stations, dem, topography, aoi, fl_low>>
distVars == <<distIn, maps_data, M, outcomeD, pcD>>
pmaxVars == <<pmax_data, max_locations, outcomeP, pcP>>
fparVars == <<n_sets, pars_template, pars_reference, pcFP>>
fwdVars == <<fm_call, d_s, x_log, p_s, h_b, u_b, frequency, psd_f, outcomeM, pcM>>
vars == <<invVars, spectraVars, fitVars, ampVars, distVars, pmaxVars, fparVars, fwdVars>>

\* a subsystem that a specification does not run stays idle
IdleSpectra ==
    /\ parameters = <<>> /\ models = <<>> /\ spectra = <<>> /\ pcS = "idle"
    /\ n_cores_s = 1 /\ futures = <<>> /\ finish_order = <<>> /\ collected = <<>>
    /\ outcomeS = "none"
IdleFit ==
    /\ fitArgs = <<>> /\ residual = <<>> /\ pcF = "idle"
IdleAmp ==
    /\ d_map = <<>> /\ px_ok = <<>> /\ a_d = <<>> /\ output = "variance"
    /\ normalise = FALSE /\ fit = <<>> /\ results = <<>> /\ fitted = {} /\ r = <<>>
    /\ outcomeA = "none" /\ pcA = "idle"
    /\ cpu = <<>> /\ cpu_count = 1 /\ cores = 0
IdleDist ==
    /\ stations = <<>> /\ dem = <<>> /\ topography = FALSE /\ aoi = <<>> /\ fl_low = {}
    /\ maps_data = <<>> /\ M = <<>> /\ outcomeD = "none" /\ pcD = "idle"
IdlePmax ==
    /\ pmax_data = <<>> /\ max_locations = <<>> /\ outcomeP = "none" /\ pcP = "idle"
IdleFpar ==
    /\ n_sets = 0 /\ pars_template = <<>> /\ pars_reference = <<>> /\ pcFP = "idle"
IdleFwd ==
    /\ fm_call = <<>> /\ d_s = 0 /\ x_log = <<>> /\ p_s = <<>> /\ h_b = <<>>
    /\ u_b = <<>> /\ frequency = <<>> /\ psd_f = <<>> /\ outcomeM = "none"
    /\ pcM = "idle"
IdleInv ==
    /\ reference = <<>> /\ data = <<>> /\ n_cores = 1 /\ inversion = <<>>
    /\ outcome = [status |-> "none"] /\ pc = "idle"

\* ------------------------------------------------------------ helpers
IsNaN(x) == x = NaN

Min(S) == CHOOSE m \in S : \A x \in S : m <= x
Max(S) == CHOOSE m \in S : \A x \in S : m >= x

\* np.isnan(v).any() for a vector over the frequency axis
AnyNaN(v) == \E f \in DOMAIN v : IsNaN(v[f])

RECURSIVE SumOver(_, _)
SumOver(v, S) ==
    IF S = {} THEN 0
    ELSE LET f == CHOOSE x \in S : TRUE IN v[f] + SumOver(v, S \ {f})

\* (a - b) ** 2 with NaN propagation
SqDiff(a, b) == IF IsNaN(a) \/ IsNaN(b) THEN NaN ELSE (a - b) * (a - b)

\* np.sqrt((a - b) ** 2), i.e. |a - b|, with NaN propagation
AbsDiff(a, b) ==
    IF IsNaN(a) \/ IsNaN(b) THEN NaN
    ELSE IF a >= b THEN a - b ELSE b - a

\* np.sqrt(np.mean(d**2, axis=1)) for one catalogue row.  The value kept is
\* the sum of the squares, F * rmse^2: sqrt(x / F) is strictly increasing, so
\* order, ties and the zero test are those of the RMSE itself.
Rmse(power, psd) ==
    LET sq == [f \in Freqs |-> SqDiff(power[f], psd[f])]
    IN  IF AnyNaN(sq) THEN NaN ELSE SumOver(sq, Freqs)

\* np.min: NaN as soon as one element is NaN
NpMin(rv) ==
    IF \E i \in DOMAIN rv : IsNaN(rv[i]) THEN NaN
    ELSE Min({rv[i] : i \in DOMAIN rv})

ArgMinFirstNumeric(rv) ==
    Min({i \in DOMAIN rv : \A j \in DOMAIN rv : rv[i] <= rv[j]})

\* a variant of np.argmin that returns the last minimum
ArgMinLast(rv) ==
    IF \E i \in DOMAIN rv : IsNaN(rv[i])
    THEN Min({i \in DOMAIN rv : IsNaN(rv[i])})
    ELSE Max({i \in DOMAIN rv : \A j \in DOMAIN rv : rv[i] <= rv[j]})

\* np.argmin: the first NaN when there is one, else the first minimum
NpArgMin(rv) ==
    IF \E i \in DOMAIN rv : IsNaN(rv[i])
    THEN Min({i \in DOMAIN rv : IsNaN(rv[i])})
    ELSE ArgMinFirstNumeric(rv)

\* ------------------------------------------------------- fmi_inversion
\* reference_spectra / reference_parameters (fmi_inversion.py:54-57)
reference_spectra(ref) == [i \in DOMAIN ref |-> ref[i].power]
reference_parameters(ref) == [i \in DOMAIN ref |-> ref[i].pars]

NaNVector == [f \in Freqs |-> NaN]

\* process_spectrum (fmi_inversion.py:60-72); indices are 1-based
process_spectrum(ref, psd) ==
    IF ~AnyNaN(psd)
    THEN LET ref_sp == reference_spectra(ref)
             rmse == [i \in DOMAIN ref_sp |-> Rmse(ref_sp[i], psd)]
             mod_best == NpArgMin(rmse)
         IN  [rmse_f |-> [k \in Freqs |-> AbsDiff(ref_sp[mod_best][k], psd[k])],
              rmse |-> NpMin(rmse),
              mod_best |-> mod_best]
    ELSE [rmse_f |-> NaNVector, rmse |-> NaN, mod_best |-> NoMatch]

\* a catalogue spectrum is finite throughout or NaN-filled
CatSpectra == [Freqs -> Vals] \cup {NaNVector}
DataColumns == [Freqs -> Vals \cup {NaN}]

SeqsUpTo(S, lo, hi) == UNION {[1..n -> S] : n \in lo..hi}

\* The parameter sets of a catalogue of n entries: one sampled parameter
\* (a different value in every entry, in rising or in falling order) and one
\* fixed parameter shared by all entries (fmi_parameters.py).
ParTables(n) ==
    {[i \in 1..n |-> <<i, 0>>], [i \in 1..n |-> <<n + 1 - i, 0>>]}

Catalogues ==
    UNION {{[i \in 1..n |-> [power |-> sp[i], pars |-> pt[i]]] :
                sp \in [1..n -> CatSpectra], pt \in ParTables(n)} :
           n \in 1..MaxEntries}

Init ==
    /\ reference \in Catalogues
    /\ data \in SeqsUpTo(DataColumns, 0, MaxCols)
    /\ n_cores \in CoreChoices
    /\ inversion = <<>>
    /\ outcome = [status |-> "none"]
    /\ pc = "start"
    /\ IdleSpectra /\ IdleFit /\ IdleAmp /\ IdleDist /\ IdlePmax /\ IdleFpar /\ IdleFwd

\* The executor pickles the callable handed to executor.map; process_spectrum
\* is a function local to fmi_inversion, which pickle refuses, so the first
\* submitted item raises.  With no column nothing is submitted.
\* executor.map(process_spectrum, data.T) (fmi_inversion.py:76-79) pickles
\* process_spectrum for every column it submits; process_spectrum is local
\* to fmi_inversion and cannot be pickled, so the call raises as soon as
\* there is a column
ParallelMapRaises(cols) == Len(cols) > 0

\* fmi_inversion.py:75-81
RunInversion ==
    /\ pc = "start"
    /\ IF n_cores > 1 /\ ParallelMapRaises(data)
       THEN /\ outcome' = [status |-> "raised", error |-> "PicklingError"]
            /\ pc' = "done"
            /\ UNCHANGED inversion
       ELSE /\ inversion' = [c \in DOMAIN data |-> process_spectrum(reference, data[c])]
            /\ pc' = "extract"
            /\ UNCHANGED outcome
    /\ UNCHANGED <<reference, data, n_cores>>
    /\ UNCHANGED <<spectraVars, fitVars, ampVars, distVars, pmaxVars, fparVars, fwdVars>>

NaNRow(ref) == [p \in DOMAIN reference_parameters(ref)[1] |-> NaN]

\* a variant of parameters_out that fills the rows without a match with the
\* last entry's parameters
ParametersOutLastEntry(ref, inv) ==
    [c \in DOMAIN inv |->
        IF inv[c].mod_best # NoMatch
        THEN reference_parameters(ref)[inv[c].mod_best]
        ELSE reference_parameters(ref)[Len(ref)]]

\* parameters_out (fmi_inversion.py:91-96)
ParametersOut(ref, inv) ==
    [c \in DOMAIN inv |->
        IF inv[c].mod_best # NoMatch
        THEN reference_parameters(ref)[inv[c].mod_best]
        ELSE NaNRow(ref)]

\* fmi_inversion.py:83-100
Extract ==
    /\ pc = "extract"
    /\ LET valid == {c \in DOMAIN inversion : inversion[c].mod_best # NoMatch}
       IN  IF valid = {}
           THEN outcome' = [status |-> "raised", error |-> "ValueError"]
           ELSE outcome' = [status |-> "returned",
                            parameters |-> ParametersOut(reference, inversion),
                            rmse |-> [c \in DOMAIN inversion |-> inversion[c].rmse_f]]
    /\ pc' = "done"
    /\ UNCHANGED <<reference, data, n_cores, inversion>>
    /\ UNCHANGED <<spectraVars, fitVars, ampVars, distVars, pmaxVars, fparVars, fwdVars>>

Next == RunInversion \/ Extract

Spec == Init /\ [][Next]_vars

\* ------------------------------------------- properties of fmi_inversion
RmseOf(c) == [i \in DOMAIN reference |-> Rmse(reference[i].power, data[c])]

\* entry i attains the minimum of rv: its value is a number as small as
\* every number of rv (any entry, when rv holds no number)
Minimal(rv, i) == \A j \in DOMAIN rv : ~IsNaN(rv[j]) => (~IsNaN(rv[i]) /\ rv[i] <= rv[j])

Mapped == pc \in {"extract", "done"} /\ Len(inversion) = Len(data)
Returned == pc = "done" /\ outcome.status = "returned"
Raised == pc = "done" /\ outcome.status = "raised"
ValidCols == {c \in DOMAIN data : ~AnyNaN(data[c])}

\* C1: for every NaN-free data column the selected index has minimal RMSE
\* over the catalogue, is the lowest index of minimal RMSE, and the
\* per-frequency residual is |catalogue_power[best] - psd|.
C1_SelectsFirstMinimum ==
    Mapped =>
        \A c \in ValidCols :
            LET b == inversion[c].mod_best
                rv == RmseOf(c)
            IN  /\ b \in DOMAIN reference
                /\ Minimal(rv, b)
                /\ \A j \in DOMAIN reference : Minimal(rv, j) => b <= j
                /\ \A f \in Freqs :
                      inversion[c].rmse_f[f] = AbsDiff(reference[b].power[f], data[c][f])

\* C6: for every NaN-free data column the selected entry has a NaN-free
\* spectrum whenever the catalogue holds at least one NaN-free spectrum.
C6_NeverSelectsNaNEntry ==
    Mapped =>
        \A c \in ValidCols :
            (\E i \in DOMAIN reference : ~AnyNaN(reference[i].power))
                => ~AnyNaN(reference[inversion[c].mod_best].power)

C7_RaisesIffNoValidColumn ==
    pc = "done" =>
        /\ (outcome.status = "raised" /\ outcome.error = "ValueError") <=> (ValidCols = {})
        /\ ValidCols # {} => outcome.status = "returned"

NaNEntries == {i \in DOMAIN reference : AnyNaN(reference[i].power)}

C9_OneRowPerColumnAnyCores ==
    (pc = "done" /\ ValidCols # {}) =>
        /\ outcome.status = "returned"
        /\ DOMAIN outcome.parameters = DOMAIN data
        /\ DOMAIN outcome.rmse = DOMAIN data
        /\ \A c \in DOMAIN data :
              LET res == process_spectrum(reference, data[c]) IN
              /\ outcome.rmse[c] = res.rmse_f
              /\ c \in ValidCols => outcome.parameters[c] = reference[res.mod_best].pars

\* ----------------------------------------------------------- fmi_spectra
\* linear-scale power values of the forward models
LinVals == {1, 2}
ParamIds == {1, 2}

RECURSIVE Pow(_, _)
Pow(b, e) == IF e = 0 THEN 1 ELSE b * Pow(b, e - 1)

\* 10 * np.log10(x) for x >= 1, rounded down to a whole dB:
\* the d with 10^d <= x^10 < 10^(d+1)
Db(x) == CHOOSE d \in 0..(4 * x) : Pow(10, d) <= Pow(x, 10) /\ Pow(x, 10) < Pow(10, d + 1)

DbVec(v) == [k \in DOMAIN v |-> Db(v[k])]
AddVec(a, b) == [k \in DOMAIN a |-> a[k] + b[k]]

\* model_turbulence / model_bedload called by f (fmi_spectra.py:11-46): the
\* data frames they return, taken from the table of model results
p_turbulence(par) == [frequency |-> Freqs, power |-> models[par].turbulence]
p_bedload(par) == [frequency |-> Freqs, power |-> models[par].bedload]

\* p_combined (fmi_spectra.py:49-50): a copy of p_turbulence with one more
\* column, "spectrum"; its "power" column is still the turbulence power
p_combined(par) ==
    [frequency |-> p_turbulence(par).frequency,
     power |-> p_turbulence(par).power,
     spectrum |-> AddVec(p_turbulence(par).power, p_bedload(par).power)]

\* f (fmi_spectra.py:9-68)
f(par) ==
    [pars |-> par,
     frequency |-> p_combined(par).frequency,
     power |-> DbVec(p_combined(par).power),
     turbulence |-> DbVec(p_turbulence(par).power),
     bedload |-> DbVec(p_bedload(par).power)]

\* what the two models return for a parameter set, or that evaluating it
\* raises (then no spectrum is read)
ModelResults ==
    {m \in [raises : BOOLEAN, turbulence : [Freqs -> LinVals], bedload : [Freqs -> LinVals]] :
        m.raises => (m.turbulence = [k \in Freqs |-> 1] /\ m.bedload = [k \in Freqs |-> 1])}

InitSpectra ==
    /\ parameters \in SeqsUpTo(ParamIds, 0, MaxParams)
    /\ models \in [ParamIds -> ModelResults]
    /\ n_cores_s \in CoreChoices
    /\ spectra = <<>>
    /\ futures = <<>>
    /\ finish_order = <<>>
    /\ collected = <<>>
    /\ outcomeS = "none"
    /\ pcS = "start"
    /\ IdleInv /\ IdleFit /\ IdleAmp /\ IdleDist /\ IdlePmax /\ IdleFpar /\ IdleFwd

\* a variant of the list comprehension that leaves out the parameter sets
\* whose evaluation raises
SequentialMapSkipping(pars) ==
    [raised |-> FALSE,
     list |-> [i \in 1..Cardinality({k \in DOMAIN pars : ~models[pars[k]].raises}) |->
                 f(pars[CHOOSE k \in DOMAIN pars :
                     /\ ~models[pars[k]].raises
                     /\ Cardinality({m \in 1..k : ~models[pars[m]].raises}) = i])]]

\* [f(param) for param in parameters] (fmi_spectra.py:114): the first
\* evaluation that raises ends the comprehension, and no list is built
SequentialMap(pars) ==
    IF \E i \in DOMAIN pars : models[pars[i]].raises
    THEN [raised |-> TRUE, list |-> <<>>]
    ELSE [raised |-> FALSE, list |-> [i \in DOMAIN pars |-> f(pars[i])]]

\* fmi_spectra with n_cores = 1 (fmi_spectra.py:107, 113-116)
fmi_spectra ==
    /\ pcS = "start"
    /\ n_cores_s = 1
    /\ IF SequentialMap(parameters).raised
       THEN outcomeS' = "raised" /\ UNCHANGED spectra
       ELSE outcomeS' = "returned" /\ spectra' = SequentialMap(parameters).list
    /\ pcS' = "done"
    /\ UNCHANGED <<parameters, models, n_cores_s, futures, finish_order, collected>>
    /\ UNCHANGED <<invVars, fitVars, ampVars, distVars, pmaxVars, fparVars, fwdVars>>

\* executor.map(f, parameters) (fmi_spectra.py:107-112) submits one
\* evaluation per parameter set
ExecutorSubmit ==
    /\ pcS = "start"
    /\ n_cores_s > 1
    /\ futures' = [i \in DOMAIN parameters |-> "pending"]
    /\ pcS' = "running"
    /\ UNCHANGED <<parameters, models, n_cores_s, spectra, finish_order, collected, outcomeS>>
    /\ UNCHANGED <<invVars, fitVars, ampVars, distVars, pmaxVars, fparVars, fwdVars>>

\* a worker process finishes the evaluation of parameter set i: f returns
\* or raises; the workers finish in any order
WorkerRun(i) ==
    /\ pcS = "running"
    /\ futures[i] = "pending"
    /\ futures' = [futures EXCEPT ![i] =
                      IF models[parameters[i]].raises THEN "raised" ELSE "ok"]
    /\ finish_order' = Append(finish_order, i)
    /\ UNCHANGED <<parameters, models, n_cores_s, spectra, collected, outcomeS, pcS>>
    /\ UNCHANGED <<invVars, fitVars, ampVars, distVars, pmaxVars, fparVars, fwdVars>>

\* a variant that takes the results in the order the workers finish
NextFinished(coll, order) ==
    IF Len(coll) < Len(order) THEN order[Len(coll) + 1] ELSE Len(coll) + 1

\* the iterator of executor.map yields the results in the order of
\* submission: the index whose result list() takes next
NextIndex(coll, order) == Len(coll) + 1

\* list(...) takes the next result (fmi_spectra.py:112): it waits for the
\* evaluation to finish, and an evaluation that raised raises here
ExecutorCollect ==
    /\ pcS = "running"
    /\ Len(collected) < Len(parameters)
    /\ LET i == NextIndex(collected, finish_order)
       IN  /\ futures[i] # "pending"
           /\ IF futures[i] = "raised"
              THEN /\ outcomeS' = "raised"
                   /\ pcS' = "done"
                   /\ UNCHANGED collected
              ELSE /\ collected' = Append(collected, f(parameters[i]))
                   /\ UNCHANGED <<outcomeS, pcS>>
    /\ UNCHANGED <<parameters, models, n_cores_s, spectra, futures, finish_order>>
    /\ UNCHANGED <<invVars, fitVars, ampVars, distVars, pmaxVars, fparVars, fwdVars>>

\* the list is complete: spectra is assigned and returned (lines 112, 116)
ExecutorReturn ==
    /\ pcS = "running"
    /\ Len(collected) = Len(parameters)
    /\ spectra' = collected
    /\ outcomeS' = "returned"
    /\ pcS' = "done"
    /\ UNCHANGED <<parameters, models, n_cores_s, futures, finish_order, collected>>
    /\ UNCHANGED <<invVars, fitVars, ampVars, distVars, pmaxVars, fparVars, fwdVars>>

NextSpectra ==
    \/ fmi_spectra
    \/ ExecutorSubmit
    \/ \E i \in DOMAIN parameters : WorkerRun(i)
    \/ ExecutorCollect
    \/ ExecutorReturn

SpecSpectra == InitSpectra /\ [][NextSpectra]_vars

\* C2: the power stored in every catalogue entry is 10*log10 of the sum of
\* the turbulence and the bedload power, at every frequency.
C2_PowerIsDbOfSum ==
    (pcS = "done" /\ outcomeS = "returned") =>
        \A i \in DOMAIN spectra : \A k \in Freqs :
            spectra[i].power[k] =
                Db(models[parameters[i]].turbulence[k] + models[parameters[i]].bedload[k])

\* ------------------------------------------- spatial_amplitude: model_fun
DistVals == {1, 2, 3}
AmpVals == {1, 2}
StartVals == {1, 2}

RECURSIVE SumSeq(_)
SumSeq(v) == IF v = <<>> THEN 0 ELSE v[1] + SumSeq(Tail(v))

\* a_0 / np.sqrt(x) * np.exp(-((np.pi * f * x) / (q * v))), kept as a term in
\* a_0 and in the distance x it is evaluated at (f, q, v are fixed over a
\* call).  For a_0 > 0 the amplitude falls strictly with x, so two terms are
\* equal exactly when the two amplitudes are.
Attenuated(a_0, x) == [a_0 |-> a_0, dist |-> x]

ModelFunOwnDistance(params, d, amp) ==
    [s \in DOMAIN amp |-> [obs |-> amp[s], pred |-> Attenuated(params[1], d[s])]]

\* model_fun (spatial_amplitude.py:10-14): a_d minus one scalar, the
\* amplitude attenuated over d.sum()
model_fun(params, d, amp) ==
    [s \in DOMAIN amp |-> [obs |-> amp[s], pred |-> Attenuated(params[1], SumSeq(d))]]

InitFit ==
    /\ fitArgs \in UNION {[params : [1..1 -> StartVals],
                           d : [1..n -> DistVals],
                           a_d : [1..n -> AmpVals]] : n \in 1..MaxStations}
    /\ residual = <<>>
    /\ pcF = "start"
    /\ IdleInv /\ IdleSpectra /\ IdleAmp /\ IdleDist /\ IdlePmax /\ IdleFpar /\ IdleFwd

\* one evaluation of the residual function by least_squares
EvalModelFun ==
    /\ pcF = "start"
    /\ residual' = model_fun(fitArgs.params, fitArgs.d, fitArgs.a_d)
    /\ pcF' = "done"
    /\ UNCHANGED fitArgs
    /\ UNCHANGED <<invVars, spectraVars, ampVars, distVars, pmaxVars, fparVars, fwdVars>>

NextFit == EvalModelFun

SpecFit == InitFit /\ [][NextFit]_vars

\* C3: for every station s the residual is the observed amplitude minus the
\* amplitude attenuated over that station's own distance to the cell, so two
\* stations at different distances get different predicted amplitudes.
C3_ResidualUsesOwnDistance ==
    pcF = "done" =>
        /\ \A s \in DOMAIN residual :
              /\ residual[s].obs = fitArgs.a_d[s]
              /\ residual[s].pred = Attenuated(fitArgs.params[1], fitArgs.d[s])
        /\ \A s, t \in DOMAIN residual :
              fitArgs.d[s] # fitArgs.d[t] => residual[s].pred # residual[t].pred

\* ------------------------------------------------------ spatial_amplitude
\* Goodness values are fractions num/den with den > 0; 0/0 is NaN and 1/0
\* is +inf, as in IEEE division.
Frac(n, m) == [num |-> n, den |-> m]
NaNF == Frac(0, 0)
InfF == Frac(1, 0)
IsNaNF(x) == x.den = 0 /\ x.num = 0
IsFinite(x) == x.den > 0
FLess(x, y) == x.num * y.den < y.num * x.den
FEq(x, y) == x.num * y.den = y.num * x.den
FSub(x, y) ==
    IF ~IsFinite(x) \/ ~IsFinite(y) THEN NaNF
    ELSE Frac(x.num * y.den - y.num * x.den, x.den * y.den)
\* x / y for finite x >= 0 and finite y >= 0
FDiv(x, y) ==
    IF ~IsFinite(x) \/ ~IsFinite(y) THEN NaNF
    ELSE IF y.num = 0 THEN (IF x.num = 0 THEN NaNF ELSE InfF)
    ELSE Frac(x.num * y.den, x.den * y.num)

\* the raster has two rows and GridWidth columns
Rows == {0, 1}
Cols == 0..(GridWidth - 1)
Cells == Rows \X Cols

\* range(d.shape[0]) x range(d.shape[1]) in loop order (row-major)
RowMajor ==
    [k \in 1..(Cardinality(Rows) * GridWidth) |->
        <<(k - 1) \div GridWidth, (k - 1) % GridWidth>>]

\* station-distance vectors of a cell (two stations)
FiniteDVecs == {<<1, 1>>, <<1, 2>>}
DVecs == FiniteDVecs \cup {<<NaN, 1>>}
AmpVectors == {<<1, 1>>, <<2, 1>>}
SsrVals == {0, 1}
OutputModes == {"variance", "residuals", "other"}

SumSq(v) == SumSeq([k \in DOMAIN v |-> v[k] * v[k]])

\* np.sum(least_squares(model_fun, model_start, args=(d, a_d, f, q, v),
\* loss="soft_l1").fun ** 2): the residual function reads d through d.sum()
\* alone, so the sum of squares the fit ends with is a function of d.sum()
LeastSquaresSsr(d) == fit[SumSeq(d)]

\* a variant of _process_pixel that stores 0 for a cell with a NaN distance
ProcessPixelZeroForNaN(d) ==
    IF \A s \in DOMAIN d : ~IsNaN(d[s])
    THEN [raises |-> output \notin {"variance", "residuals"},
          fits |-> output \in {"variance", "residuals"},
          res |-> Frac(0, 1)]
    ELSE [raises |-> FALSE, fits |-> FALSE, res |-> Frac(0, 1)]

\* _process_pixel (spatial_amplitude.py:17-47); "raises" stands for the
\* ValueError of line 44, "fits" for a call of least_squares
ProcessPixel(d) ==
    IF \A s \in DOMAIN d : ~IsNaN(d[s])
    THEN IF output = "variance"
         THEN [raises |-> FALSE, fits |-> TRUE,
               res |-> Frac(SumSq(a_d) - LeastSquaresSsr(d), SumSq(a_d))]
         ELSE IF output = "residuals"
         THEN [raises |-> FALSE, fits |-> TRUE, res |-> Frac(LeastSquaresSsr(d), 1)]
         ELSE [raises |-> TRUE, fits |-> FALSE, res |-> NaNF]
    ELSE [raises |-> FALSE, fits |-> FALSE, res |-> NaNF]

\* the cpu argument (None or a fraction of the machine's cores) and the
\* core counts of the machines
CpuArgs == {<<>>, <<Frac(1, 4)>>, <<Frac(1, 2)>>, <<Frac(1, 1)>>}
CpuCounts == {1, 4}

\* "Initialize pool": min(cores, int(cores * cpu)), or 1 without cpu
PoolSize ==
    IF cpu = <<>> THEN 1
    ELSE Min({cpu_count, (cpu_count * cpu[1].num) \div cpu[1].den})

\* args_list (spatial_amplitude.py:133-138): the AOI cells in loop order
ArgsList == SelectSeq(RowMajor, LAMBDA c : px_ok[c])

InitAmp ==
    /\ px_ok \in [Cells -> BOOLEAN]
    /\ d_map \in [Cells -> DVecs]
    \* the distances of a cell outside the AOI are never read: one finite
    \* vector stands for them all
    /\ \A c \in Cells : ~px_ok[c] => d_map[c] = <<1, 1>>
    /\ a_d \in AmpVectors
    /\ output \in OutputModes
    /\ normalise \in BOOLEAN
    /\ fit \in [{SumSeq(d) : d \in FiniteDVecs} -> SsrVals]
    /\ cpu \in CpuArgs
    /\ cpu_count \in CpuCounts
    \* without cpu the core count is not used; with cpu the pool size varies
    \* over the calls of one amplitude vector, output mode and fit
    /\ cpu = <<>> => cpu_count = 1
    /\ cpu # <<>> =>
          /\ a_d = <<1, 1>> /\ output = "variance" /\ ~normalise
          /\ fit = [k \in {SumSeq(d) : d \in FiniteDVecs} |-> k % 2]
    /\ cores = 0
    /\ results = <<>>
    /\ fitted = {}
    /\ r = [c \in Cells |-> NaNF]
    /\ outcomeA = "none"
    /\ pcA = "start"
    /\ IdleInv /\ IdleSpectra /\ IdleFit /\ IdleDist /\ IdlePmax /\ IdleFpar /\ IdleFwd

\* mp.Pool(processes=cores), which raises ValueError for a size below 1,
\* and pool.map(_process_pixel, args_list) (spatial_amplitude.py:122-144)
Dispatch ==
    /\ pcA = "start"
    /\ cores' = PoolSize
    /\ IF PoolSize < 1
       THEN /\ outcomeA' = "ValueError" /\ pcA' = "done"
            /\ UNCHANGED <<results, fitted>>
       ELSE LET out == [k \in DOMAIN ArgsList |-> ProcessPixel(d_map[ArgsList[k]])]
            IN  /\ fitted' = {ArgsList[k] : k \in {m \in DOMAIN out : out[m].fits}}
                /\ IF \E k \in DOMAIN out : out[k].raises
                   THEN /\ outcomeA' = "ValueError"
                        /\ pcA' = "done"
                        /\ UNCHANGED results
                   ELSE /\ results' = [k \in DOMAIN out |-> out[k].res]
                        /\ pcA' = "gather"
                        /\ UNCHANGED outcomeA
    /\ UNCHANGED <<ampIn, r>>
    /\ UNCHANGED <<invVars, spectraVars, fitVars, distVars, pmaxVars, fparVars, fwdVars>>

\* a gather loop that counts idx from the far end of the results
IdxOfFromEnd(c) == Cardinality({k \in DOMAIN ArgsList :
                \E m \in DOMAIN RowMajor : RowMajor[m] = c /\
                    \E n \in m..Len(RowMajor) : RowMajor[n] = ArgsList[k]})

\* the number of AOI cells that precede cell c in loop order, plus one
IdxOf(c) == Cardinality({k \in DOMAIN ArgsList :
                \E m \in DOMAIN RowMajor : RowMajor[m] = c /\
                    \E n \in 1..m : RowMajor[n] = ArgsList[k]})

\* results to 2D array (spatial_amplitude.py:146-153)
Gather ==
    /\ pcA = "gather"
    /\ r' = [c \in Cells |-> IF px_ok[c] THEN results[IdxOf(c)] ELSE NaNF]
    /\ pcA' = "normalise"
    /\ UNCHANGED <<ampIn, cores, results, fitted, outcomeA>>
    /\ UNCHANGED <<invVars, spectraVars, fitVars, distVars, pmaxVars, fparVars, fwdVars>>

FiniteCells(rst) == {c \in DOMAIN rst : IsFinite(rst[c])}

\* np.nanmin / np.nanmax: NaN when every cell is NaN
NanMin(rst) ==
    IF FiniteCells(rst) = {} THEN NaNF
    ELSE rst[CHOOSE c \in FiniteCells(rst) :
                \A e \in FiniteCells(rst) : ~FLess(rst[e], rst[c])]
NanMax(rst) ==
    IF FiniteCells(rst) = {} THEN NaNF
    ELSE rst[CHOOSE c \in FiniteCells(rst) :
                \A e \in FiniteCells(rst) : ~FLess(rst[c], rst[e])]

\* (r - np.nanmin(r)) / (np.nanmax(r) - np.nanmin(r)) (spatial_amplitude.py:157)
Normalised(rst) ==
    [c \in DOMAIN rst |->
        FDiv(FSub(rst[c], NanMin(rst)), FSub(NanMax(rst), NanMin(rst)))]

\* spatial_amplitude.py:155-172
Normalise ==
    /\ pcA = "normalise"
    /\ r' = IF normalise THEN Normalised(r) ELSE r
    /\ outcomeA' = "returned"
    /\ pcA' = "done"
    /\ UNCHANGED <<ampIn, cores, results, fitted>>
    /\ UNCHANGED <<invVars, spectraVars, fitVars, distVars, pmaxVars, fparVars, fwdVars>>

NextAmp == Dispatch \/ Gather \/ Normalise

SpecAmp == InitAmp /\ [][NextAmp]_vars

\* C10: with normalise=True and at least one finite cell in the
\* un-normalised raster, every finite cell of the returned raster lies in
\* [0, 1] and at least one cell equals exactly 1.
C10_NormalisedHasAOne ==
    (pcA = "done" /\ outcomeA = "returned" /\ normalise
        /\ \E k \in DOMAIN results : IsFinite(results[k])) =>
        /\ \A c \in FiniteCells(r) : 0 <= r[c].num /\ r[c].num <= r[c].den
        /\ \E c \in Cells : IsFinite(r[c]) /\ r[c].num = r[c].den

\* a cell the fit skips: outside the AOI, or with a NaN station distance
Skipped(c) == ~px_ok[c] \/ \E s \in DOMAIN d_map[c] : IsNaN(d_map[c][s])

\* C12: in the raster computed by spatial_amplitude every cell outside the
\* AOI is NaN and every AOI cell with a NaN station distance is NaN, and no
\* least-squares fit is run for either kind of cell.
C12_SkippedCellsAreNaN ==
    /\ (pcA = "normalise" \/ (pcA = "done" /\ outcomeA = "returned")) =>
          \A c \in Cells : Skipped(c) => IsNaNF(r[c])
    /\ \A c \in Cells : Skipped(c) => c \notin fitted

C12_Witness ==
    /\ pcA = "done" /\ outcomeA = "returned" /\ normalise
    /\ \E c \in Cells : ~px_ok[c]
    /\ \E c \in Cells : px_ok[c] /\ Skipped(c)
    /\ \E c \in Cells : IsFinite(r[c])
    /\ fitted # {}

\* C13: with an output argument that is neither "variance" nor "residuals"
\* the call fails with the invalid-output error, whatever the distance maps
\* and the AOI are, and no fit is run.
C13_InvalidOutputAlwaysRaises ==
    (pcA = "done" /\ output \notin {"variance", "residuals"}) =>
        outcomeA = "ValueError" /\ fitted = {}

\* cell b comes before cell c in row-major order
Before(b, c) == b[1] < c[1] \/ (b[1] = c[1] /\ b[2] < c[2])

\* C27: whatever the AOI mask and the pool size, the work items are exactly
\* the AOI cells in row-major order, the goodness stored at an AOI cell is
\* the result computed from that cell's own station distances, and as many
\* results are consumed as there are AOI cells.
C27_GatherMatchesDispatch ==
    pcA = "normalise" =>
        /\ {ArgsList[k] : k \in DOMAIN ArgsList} = {c \in Cells : px_ok[c]}
        /\ \A k, m \in DOMAIN ArgsList : k < m => Before(ArgsList[k], ArgsList[m])
        /\ \A c \in Cells : px_ok[c] => r[c] = ProcessPixel(d_map[c]).res
        /\ Len(results) = Cardinality({c \in Cells : px_ok[c]})

C27_Witness ==
    /\ pcA = "normalise" /\ cores > 1
    /\ ~px_ok[<<0, 0>>]
    /\ \E b, c \in Cells : px_ok[b] /\ px_ok[c] /\ r[b] # r[c]

\* C29: the pool is created with at least 1 and at most cpu_count worker
\* processes, so its creation does not fail on the size.
C29_PoolSizeInRange ==
    pcA # "start" => (1 <= cores /\ cores <= cpu_count)

\* ------------------------------------------------------- spatial_distance
\* The terrain grid has unit resolution and the bounds left = 0, bottom = 0,
\* right = width, top = height (from_origin(0, height, 1, 1)).
Height(g) == g.shape[1]
Width(g) == g.shape[2]
GridCells(h, w) == (0..(h - 1)) \X (0..(w - 1))

FlatDem(h, w) == [c \in GridCells(h, w) |-> 1]
\* flat terrain, or flat but for one cell: a pit, a peak or a NaN
Dems(h, w) ==
    {[shape |-> <<h, w>>, z |-> FlatDem(h, w)]} \cup
    {[shape |-> <<h, w>>, z |-> [FlatDem(h, w) EXCEPT ![c] = e]] :
        c \in GridCells(h, w), e \in {0, 2, NaN}}

\* station positions: the lower left corner of the extent, the point above
\* it, the upper right corner, the point left of it, and one point right of
\* the extent
Points(h, w) ==
    {<<0, 0>>, <<0, 1>>, <<w - 1, h>>, <<w, h>>, <<w + 1, 0>>}
StationCounts == {1, 2}
NoAoi == <<>>
AoiChoices(h, w) ==
    {NoAoi, <<0, 1, 0, 1>>, <<w - 1, w, h - 1, h>>, <<0, w + 1, 0, h>>}

\* aoi_ext = [left, right, bottom, top] (spatial_distance.py:28-31)
aoi_ext == IF aoi = NoAoi THEN <<0, Width(dem), 0, Height(dem)>> ELSE aoi

\* a variant of PART 0 without the check of the AOI extent
CheckInputErrorNoAoi ==
    IF \E c \in DOMAIN dem.z : IsNaN(dem.z[c])
    THEN "ValueError: DEM contains NA values"
    ELSE IF \E i \in DOMAIN stations :
                \/ stations[i][1] < 0 \/ stations[i][1] > Width(dem)
                \/ stations[i][2] < 0 \/ stations[i][2] > Height(dem)
    THEN "ValueError: station outside DEM extent"
    ELSE "ok"

\* PART 0 (spatial_distance.py:12-38)
CheckInputError ==
    IF \E c \in DOMAIN dem.z : IsNaN(dem.z[c])
    THEN "ValueError: DEM contains NA values"
    ELSE IF \E i \in DOMAIN stations :
                \/ stations[i][1] < 0 \/ stations[i][1] > Width(dem)
                \/ stations[i][2] < 0 \/ stations[i][2] > Height(dem)
    THEN "ValueError: station outside DEM extent"
    ELSE IF \/ aoi_ext[1] < 0 \/ aoi_ext[2] > Width(dem)
            \/ aoi_ext[3] < 0 \/ aoi_ext[4] > Height(dem)
    THEN "ValueError: AOI beyond DEM extent"
    ELSE "ok"

CheckInput ==
    /\ pcD = "check"
    /\ IF CheckInputError = "ok"
       THEN pcD' = "maps" /\ UNCHANGED outcomeD
       ELSE pcD' = "done" /\ outcomeD' = CheckInputError
    /\ UNCHANGED <<distIn, maps_data, M>>
    /\ UNCHANGED <<invVars, spectraVars, fitVars, ampVars, pmaxVars, fparVars, fwdVars>>

\* aoi_xy (spatial_distance.py:46): zip(arange(height)[::-1], arange(width)),
\* one pair per index 0 .. min(height, width) - 1
AoiXyLen == IF Height(dem) <= Width(dem) THEN Height(dem) ELSE Width(dem)
aoi_xy(k) == <<Height(dem) - 1 - k, k>>

\* the boolean mask of spatial_distance.py:49-52, one entry per pair of aoi_xy
AoiMask(k) ==
    /\ aoi_xy(k)[1] >= aoi_ext[3] /\ aoi_xy(k)[1] <= aoi_ext[4]
    /\ aoi_xy(k)[2] >= aoi_ext[1] /\ aoi_xy(k)[2] <= aoi_ext[2]

\* aoi_rst[mask] = 1 indexes the rows of aoi_rst: the mask must have one
\* entry per row, and every cell of a selected row is set
MaskFitsRows == AoiXyLen = Height(dem)
aoi_rst(j) == IF AoiMask(j \div Width(dem)) THEN 1 ELSE 0

\* np.round(sqrt(l2)): l2 is whole, so sqrt(l2) is never half-way
RoundSqrt(l2) ==
    IF l2 = 0 THEN 0
    ELSE CHOOSE n \in 1..l2 :
            (2 * n - 1) * (2 * n - 1) <= 4 * l2 /\ 4 * l2 < (2 * n + 1) * (2 * n + 1)

SqDist(p, q) == (p[1] - q[1]) * (p[1] - q[1]) + (p[2] - q[2]) * (p[2] - q[2])

\* coordinates and elevations along a line are kept times Scale(n), the
\* number of steps of np.linspace(a, b, n)
Scale(n) == IF n = 1 THEN 1 ELSE n - 1

\* np.linspace over both coordinates: point k of n, k = 1 .. n
LinePoints(p, q, n) ==
    [k \in 1..n |-> <<p[1] * Scale(n) + (k - 1) * (q[1] - p[1]),
                      p[2] * Scale(n) + (k - 1) * (q[2] - p[2])>>]

\* interior point k of the line has a whole x coordinate: it lies on the
\* edge between two columns of the grid
OnEdge(p, q, n, k) ==
    /\ 1 < k /\ k < n
    /\ LinePoints(p, q, n)[k][1] > 0
    /\ LinePoints(p, q, n)[k][1] % Scale(n) = 0

\* xy_pts as computed (spatial_distance.py:84-85, 149-150): np.linspace
\* evaluates point k as k * step + start in double precision, and a point
\* whose exact x is whole can come out one unit in the last place below it
\* (np.linspace(8.2, 4.6, 4)[1] is 6.999999999999999, while
\* np.linspace(4.6, 8.2, 4)[2] is 7.0). Which lines round below is given by
\* fl_low; a point that rounds below is kept as a point of the column to
\* its left.
FloatPoints(p, q, n) ==
    [k \in 1..n |->
        IF <<p, q>> \in fl_low /\ OnEdge(p, q, n, k)
        THEN <<LinePoints(p, q, n)[k][1] - 1, LinePoints(p, q, n)[k][2]>>
        ELSE LinePoints(p, q, n)[k]]

\* n_int of the distance maps (lines 77-81) and of the matrix (line 146)
MapSteps(l2) == IF RoundSqrt(l2) = 0 THEN 1 ELSE RoundSqrt(l2)
MatrixSteps(l2) == IF RoundSqrt(l2) > 2 THEN RoundSqrt(l2) ELSE 2

\* src.read(1)[int(p.y), int(p.x)] (spatial_distance.py:91)
RowColInt(pt, n) == <<pt[2] \div Scale(n), pt[1] \div Scale(n)>>

\* src.index(x, y) (spatial_distance.py:138, 153): row counted from the top
RowColIndex(pt, n) ==
    <<(Height(dem) * Scale(n) - pt[2]) \div Scale(n), pt[1] \div Scale(n)>>

InGrid(rc) == rc \in DOMAIN dem.z

\* z_dir (lines 94-99, 156-161) times Scale(n): the straight line between
\* the end elevations, lowered to the terrain where topography is set
ZDir(z_int, n, k) ==
    LET lin == Scale(n) * z_int[1] + (k - 1) * (z_int[n] - z_int[1])
    IN  IF topography /\ lin > Scale(n) * z_int[k] THEN Scale(n) * z_int[k] ELSE lin

\* the path length (lines 102-103, 164-166) is the sum of the square roots
\* of segs, divided by scale; every entry of segs is the square of
\* Scale(n) times the length of one segment; dz is the elevation
\* difference of the two end points read
PathLength(z_int, l2, n) ==
    [scale |-> Scale(n),
     dz |-> z_int[n] - z_int[1],
     segs |-> [k \in 1..(n - 1) |->
                 l2 + (ZDir(z_int, n, k + 1) - ZDir(z_int, n, k))
                      * (ZDir(z_int, n, k + 1) - ZDir(z_int, n, k))]]

NoLength == [scale |-> 1, dz |-> 0, segs |-> <<>>]
NaNEntry == [err |-> FALSE, nan |-> TRUE, target |-> <<0, 0>>, l2 |-> 0,
             n_int |-> 0, len |-> NoLength]

\* the end point of the line to flat cell j (lines 73-74, 84-85)
Target(j) == aoi_xy(j \div Width(dem))

\* one distance map entry (spatial_distance.py:69-109)
MapEntry(st, j) ==
    IF aoi_rst(j) = 1
    THEN LET tgt == Target(j)
             l2 == SqDist(st, tgt)
             n == MapSteps(l2)
             pts == FloatPoints(st, tgt, n)
         IN  IF \E k \in 1..n : ~InGrid(RowColInt(pts[k], n))
             THEN [NaNEntry EXCEPT !.err = TRUE]
             ELSE [err |-> FALSE, nan |-> FALSE, target |-> tgt, l2 |-> l2, n_int |-> n,
                   len |-> PathLength([k \in 1..n |-> dem.z[RowColInt(pts[k], n)]], l2, n)]
    ELSE NaNEntry

FlatIdx == 0..(Height(dem) * Width(dem) - 1)

\* PART 1 (spatial_distance.py:41-117)
ComputeMaps ==
    /\ pcD = "maps"
    /\ LET out == [i \in DOMAIN stations |-> [j \in FlatIdx |-> MapEntry(stations[i], j)]]
       IN  IF ~MaskFitsRows \/ \E i \in DOMAIN out : \E j \in FlatIdx : out[i][j].err
           THEN /\ outcomeD' = "IndexError"
                /\ pcD' = "done"
                /\ UNCHANGED maps_data
           ELSE /\ maps_data' = out
                /\ pcD' = "matrix"
                /\ UNCHANGED outcomeD
    /\ UNCHANGED <<distIn, M>>
    /\ UNCHANGED <<invVars, spectraVars, fitVars, ampVars, pmaxVars, fparVars, fwdVars>>

\* one entry of the station distance matrix (spatial_distance.py:143-166)
MatrixEntry(p, q) ==
    LET l2 == SqDist(p, q)
        n == MatrixSteps(l2)
        pts == FloatPoints(p, q, n)
    IN  IF \E k \in 1..n : ~InGrid(RowColIndex(pts[k], n))
        THEN [err |-> TRUE, l2 |-> l2, n_int |-> n, len |-> NoLength]
        ELSE [err |-> FALSE, l2 |-> l2, n_int |-> n,
              len |-> PathLength([k \in 1..n |-> dem.z[RowColIndex(pts[k], n)]], l2, n)]

\* PART 2 (spatial_distance.py:121-169); line 138 reads the elevation of
\* every station first
ComputeMatrix ==
    /\ pcD = "matrix"
    /\ LET out == [i \in DOMAIN stations |->
                     [j \in DOMAIN stations |-> MatrixEntry(stations[i], stations[j])]]
       IN  IF \/ \E i \in DOMAIN stations : ~InGrid(RowColIndex(stations[i], 1))
              \/ \E i, j \in DOMAIN stations : out[i][j].err
           THEN /\ outcomeD' = "IndexError"
                /\ UNCHANGED M
           ELSE /\ M' = out
                /\ outcomeD' = "returned"
    /\ pcD' = "done"
    /\ UNCHANGED <<distIn, maps_data>>
    /\ UNCHANGED <<invVars, spectraVars, fitVars, ampVars, pmaxVars, fparVars, fwdVars>>

\* the lines the call samples: station to station, station to target
SampledLines ==
    {[from |-> stations[i], to |-> stations[j], n |-> MatrixSteps(SqDist(stations[i], stations[j]))] :
        i \in DOMAIN stations, j \in DOMAIN stations}
    \cup
    {[from |-> stations[i], to |-> Target(j), n |-> MapSteps(SqDist(stations[i], Target(j)))] :
        i \in DOMAIN stations, j \in FlatIdx}

\* the sampled lines with an interior point on a cell edge
RoundingLines ==
    {<<ln.from, ln.to>> : ln \in {e \in SampledLines :
                                    \E k \in 1..e.n : OnEdge(e.from, e.to, e.n, k)}}

InitDist ==
    /\ \E h \in 1..DemRows : \E w \in 1..DemCols :
          /\ dem \in Dems(h, w)
          /\ stations \in UNION {[1..n -> Points(h, w)] : n \in StationCounts}
          /\ aoi \in AoiChoices(h, w)
    /\ topography \in BOOLEAN
    /\ fl_low \in SUBSET RoundingLines
    /\ maps_data = <<>>
    /\ M = <<>>
    /\ outcomeD = "none"
    /\ pcD = "check"
    /\ IdleInv /\ IdleSpectra /\ IdleFit /\ IdleAmp /\ IdlePmax /\ IdleFpar /\ IdleFwd

NextDist == CheckInput \/ ComputeMaps \/ ComputeMatrix

SpecDist == InitDist /\ [][NextDist]_vars

MapsDone == pcD \in {"matrix", "done"} /\ maps_data # <<>>

\* the point pt lies in the square of cell (rw, cl), rows counted from the
\* top (as the georeference does) or from the bottom
InCellSquare(pt, rw, cl) ==
    /\ cl <= pt[1] /\ pt[1] <= cl + 1
    /\ \/ rw <= pt[2] /\ pt[2] <= rw + 1
       \/ Height(dem) - rw - 1 <= pt[2] /\ pt[2] <= Height(dem) - rw

\* C4: the value stored for station i at cell (r, c) inside the AOI is the
\* path length to a target point of cell (r, c) itself; two cells of one row
\* at different columns are measured to two different target points.
C4_DistanceToOwnCell ==
    MapsDone =>
        \A i \in DOMAIN maps_data : \A j \in FlatIdx :
            ~maps_data[i][j].nan =>
                /\ InCellSquare(maps_data[i][j].target, j \div Width(dem), j % Width(dem))
                /\ \A m \in FlatIdx :
                      (~maps_data[i][m].nan /\ m # j /\ m \div Width(dem) = j \div Width(dem))
                          => maps_data[i][m].target # maps_data[i][j].target


\* ----------------------------------------------------------- spatial_pmax
\* the argument is a numpy array, a rasterio MemoryFile or anything else
PmaxKinds == {"ndarray", "MemoryFile", "other"}
RasterVals == {0, 1, 2, NaN}

InitPmax ==
    /\ pmax_data \in [kind : PmaxKinds, raster : [Cells -> RasterVals]]
    /\ max_locations = <<>>
    /\ outcomeP = "none"
    /\ pcP = "start"
    /\ IdleInv /\ IdleSpectra /\ IdleFit /\ IdleAmp /\ IdleDist /\ IdleFpar /\ IdleFwd

\* np.argmax over the flattened raster: the first NaN when there is one,
\* else the first cell holding the largest value
NpArgMax(rst) ==
    LET nans == {k \in DOMAIN RowMajor : IsNaN(rst[RowMajor[k]])}
        tops == {k \in DOMAIN RowMajor :
                    \A m \in DOMAIN RowMajor : rst[RowMajor[m]] <= rst[RowMajor[k]]}
    IN  IF nans # {} THEN Min(nans) ELSE Min(tops)

\* np.unravel_index(np.argmax(data_array), data_array.shape) (line 36)
max_indices(rst) == RowMajor[NpArgMax(rst)]

\* rasterio.transform.xy(transform, row, col): the cell centre, kept times
\* two, for the transform from_origin(0, rows, 1, 1)
CentreXY(c) == <<2 * c[2] + 1, 2 * (Cardinality(Rows) - c[1]) - 1>>

\* the entry of max_locations for cell c (spatial_pmax.py:39-45)
Location(kind, c) ==
    IF kind = "MemoryFile" THEN [xy |-> CentreXY(c)] ELSE [index |-> c]

\* spatial_pmax (spatial_pmax.py:23-47)
spatial_pmax ==
    /\ pcP = "start"
    /\ IF pmax_data.kind = "other"
       THEN /\ outcomeP' = "ValueError"
            /\ UNCHANGED max_locations
       ELSE /\ max_locations' = <<Location(pmax_data.kind, max_indices(pmax_data.raster))>>
            /\ outcomeP' = "returned"
    /\ pcP' = "done"
    /\ UNCHANGED pmax_data
    /\ UNCHANGED <<invVars, spectraVars, fitVars, ampVars, distVars, fparVars, fwdVars>>

NextPmax == spatial_pmax

SpecPmax == InitPmax /\ [][NextPmax]_vars

\* the cells attaining the largest value of a raster without NaN
MaxCells(rst) == {c \in Cells : \A e \in Cells : rst[e] <= rst[c]}
NoNaNCell(rst) == \A c \in Cells : ~IsNaN(rst[c])

\* C11: the returned list holds every cell that attains the global maximum
\* of the raster; when k >= 2 cells hold it, all k are returned.
C11_ReturnsAllMaxima ==
    (pcP = "done" /\ outcomeP = "returned" /\ NoNaNCell(pmax_data.raster)) =>
        \A c \in MaxCells(pmax_data.raster) :
            \E k \in DOMAIN max_locations :
                max_locations[k] = Location(pmax_data.kind, c)

\* C28: for a raster with at least one finite cell and at least one NaN
\* cell, the location returned is that of a finite cell holding the maximum
\* over the finite cells, never that of a NaN cell.
C28_MaxIgnoresNaN ==
    (pcP = "done" /\ outcomeP = "returned"
        /\ (\E c \in Cells : IsNaN(pmax_data.raster[c]))
        /\ (\E c \in Cells : ~IsNaN(pmax_data.raster[c]))) =>
        \E c \in Cells :
            /\ max_locations = <<Location(pmax_data.kind, c)>>
            /\ ~IsNaN(pmax_data.raster[c])
            /\ \A e \in Cells : ~IsNaN(pmax_data.raster[e]) =>
                                   pmax_data.raster[e] <= pmax_data.raster[c]

\* ---------------------------------------- properties of spatial_distance
MatrixDone == pcD = "done" /\ outcomeD = "returned"

\* a path of length zero: every segment has length zero
ZeroLength(a) == \A k \in DOMAIN a.segs : a.segs[k] = 0

\* path a is strictly longer than path b: both are sums of as many square
\* roots over the same scale, and the terms of a can be paired with the
\* terms of b so that none is smaller and one is larger
StrictlyLonger(a, b) ==
    /\ a.scale = b.scale
    /\ DOMAIN a.segs = DOMAIN b.segs
    /\ \E pi \in Permutations(DOMAIN a.segs) :
          /\ \A k \in DOMAIN a.segs : a.segs[k] >= b.segs[pi[k]]
          /\ \E k \in DOMAIN a.segs : a.segs[k] > b.segs[pi[k]]

\* C14: for every accepted station set and terrain grid, with and without
\* topography, the station distance matrix has M[i,j] = M[j,i] for all i, j
\* (neither path is longer than the other) and M[i,i] = 0 for all i.
C14_MatrixSymmetric ==
    MatrixDone =>
        \A i \in DOMAIN M :
            /\ ZeroLength(M[i][i].len)
            /\ \A j \in DOMAIN M : ~StrictlyLonger(M[i][j].len, M[j][i].len)

\* the square of the 3D straight-line distance between the end points of a
\* computed entry
Straight2(e) == e.l2 + e.len.dz * e.len.dz

\* what "path length >= straight line" and "path length = straight line"
\* need of an entry: a path without segments has length 0; a path of m
\* segments is at most m times its longest segment; without topography
\* the m segments are the m equal parts of the straight line
AtLeastStraight(e) ==
    IF e.len.segs = <<>>
    THEN Straight2(e) = 0
    ELSE \E k \in DOMAIN e.len.segs :
            Len(e.len.segs) * Len(e.len.segs) * e.len.segs[k]
                >= e.len.scale * e.len.scale * Straight2(e)
EqualStraight(e) ==
    IF e.len.segs = <<>>
    THEN Straight2(e) = 0
    ELSE /\ e.len.scale = Len(e.len.segs)
         /\ \A k \in DOMAIN e.len.segs : e.len.segs[k] = Straight2(e)

ComputedEntries ==
    (IF MapsDone
     THEN {maps_data[i][j] : i \in DOMAIN maps_data, j \in FlatIdx} \ {NaNEntry}
     ELSE {})
    \cup
    (IF MatrixDone THEN {M[i][j] : i \in DOMAIN M, j \in DOMAIN M} ELSE {})

\* C15: for every pair of end points processed (station to AOI cell,
\* station to station) the path length is at least the 3D straight-line
\* distance between the end points with topography=True and equal to it
\* with topography=False, also where the step count is at its minimum.
C15_PathAtLeastStraightLine ==
    \A e \in ComputedEntries :
        /\ AtLeastStraight(e)
        /\ ~topography => EqualStraight(e)

\* twice the centre of flat cell j, rows counted from the top of the extent
\* (as the georeference does) and rows counted from the bottom
CentreTop2(j) == <<2 * (j % Width(dem)) + 1, 2 * (Height(dem) - j \div Width(dem)) - 1>>
CentreBottom2(j) == <<2 * (j % Width(dem)) + 1, 2 * (j \div Width(dem)) + 1>>

InAoiBox2(pt) ==
    /\ 2 * aoi_ext[1] <= pt[1] /\ pt[1] <= 2 * aoi_ext[2]
    /\ 2 * aoi_ext[3] <= pt[2] /\ pt[2] <= 2 * aoi_ext[4]

\* C16: for every accepted AOI box and every station, a cell of the
\* distance map is NaN if and only if its centre lies outside the box (in
\* one of the two row conventions, the same for all cells).
C16_NaNIffOutsideAoi ==
    MapsDone =>
        \/ \A i \in DOMAIN maps_data : \A j \in FlatIdx :
              maps_data[i][j].nan <=> ~InAoiBox2(CentreTop2(j))
        \/ \A i \in DOMAIN maps_data : \A j \in FlatIdx :
              maps_data[i][j].nan <=> ~InAoiBox2(CentreBottom2(j))

DemHasNaN == \E c \in DOMAIN dem.z : dem.z[c] = NaN
StationOutside ==
    \E i \in DOMAIN stations :
        ~(0 <= stations[i][1] /\ stations[i][1] <= Width(dem)
          /\ 0 <= stations[i][2] /\ stations[i][2] <= Height(dem))
AoiBeyond ==
    aoi # NoAoi /\ ~(0 <= aoi[1] /\ aoi[2] <= Width(dem) /\ 0 <= aoi[3] /\ aoi[4] <= Height(dem))

DistErrors == {"ValueError: DEM contains NA values",
               "ValueError: station outside DEM extent",
               "ValueError: AOI beyond DEM extent"}

\* C17: when the terrain grid holds a NaN elevation, a station lies outside
\* the extent or the AOI reaches beyond the extent, the call raises an error
\* and no distance-map cell and no matrix entry is computed: the call never
\* gets past the checks.
C17_BadInputRaisesFirst ==
    (pcD # "idle" /\ (DemHasNaN \/ StationOutside \/ AoiBeyond)) =>
        /\ pcD \in {"check", "done"}
        /\ pcD = "done" => outcomeD \in DistErrors
        /\ maps_data = <<>> /\ M = <<>>

C17_Witness ==
    /\ pcD = "done" /\ outcomeD = "ValueError: AOI beyond DEM extent"
    /\ AoiBeyond /\ ~DemHasNaN /\ ~StationOutside
    /\ maps_data = <<>> /\ M = <<>>

\* C30: a call whose stations and AOI pass the checks of PART 0 reads the
\* elevation of every sample of every line at a row and column inside the
\* grid, and so does not end in an out-of-range read.
C30_SamplesInsideGrid ==
    (pcD = "done" /\ CheckInputError = "ok" /\ MaskFitsRows) =>
        outcomeD = "returned"

\* --------------------------------------------------------- fmi_parameters
\* three of the keys of pars_template; a value is kept as the sequence of
\* its numbers: <<v>> for a scalar, <<low, high>> (low <= high) for a range
ParKeys == {"h_w", "q_s", "d_s"}
ScalarVals == {<<1>>, <<2>>}
RangeVals == {<<1, 3>>, <<2, 2>>}

\* isinstance(value, (list, tuple)) and len(value) == 2 (line 103)
IsRange(value) == Len(value) = 2

\* a variant of random.uniform that can exceed the upper end by one
UniformWide(a, b) == {<<v>> : v \in a..(b + 1)}

\* the values random.uniform(a, b) can return, a <= b (line 104)
Uniform(a, b) == {<<v>> : v \in a..b}

InitFpar ==
    /\ n_sets \in 0..MaxSets
    /\ pars_template \in [ParKeys -> ScalarVals \cup RangeVals]
    /\ pars_reference = <<>>
    /\ pcFP = "loop"
    /\ IdleInv /\ IdleSpectra /\ IdleFit /\ IdleAmp /\ IdleDist /\ IdlePmax /\ IdleFwd

\* what key can hold in a copy of the template after lines 102-104
EntryValues(key) ==
    IF IsRange(pars_template[key])
    THEN Uniform(pars_template[key][1], pars_template[key][2])
    ELSE {pars_template[key]}

\* one turn of the loop over range(n) (fmi_parameters.py:98-106): pars_ref
\* is a copy of the template in which every range is replaced by a draw
DrawSet ==
    /\ pcFP = "loop"
    /\ Len(pars_reference) < n_sets
    /\ \E pars_ref \in [ParKeys -> UNION {EntryValues(key) : key \in ParKeys}] :
          /\ \A key \in ParKeys : pars_ref[key] \in EntryValues(key)
          /\ pars_reference' = Append(pars_reference, pars_ref)
    /\ UNCHANGED <<n_sets, pars_template, pcFP>>
    /\ UNCHANGED <<invVars, spectraVars, fitVars, ampVars, distVars, pmaxVars, fwdVars>>

\* return pars_reference (fmi_parameters.py:108)
ReturnSets ==
    /\ pcFP = "loop"
    /\ Len(pars_reference) = n_sets
    /\ pcFP' = "done"
    /\ UNCHANGED <<n_sets, pars_template, pars_reference>>
    /\ UNCHANGED <<invVars, spectraVars, fitVars, ampVars, distVars, pmaxVars, fwdVars>>

NextFpar == DrawSet \/ ReturnSets

SpecFpar == InitFpar /\ [][NextFpar]_vars

SomeSetRaises == \E i \in DOMAIN parameters : models[parameters[i]].raises

\* C19: for every list of parameter sets and every n_cores >= 1 the
\* catalogue returned has one entry per parameter set, in input order: entry
\* i holds parameter set i and the spectrum modelled from it, whatever the
\* order in which the workers finish, so that the catalogue for n_cores > 1
\* is the one for n_cores = 1; the call returns when no evaluation raises.
C19_CatalogueInInputOrder ==
    /\ (pcS = "done" /\ outcomeS = "returned") =>
          /\ DOMAIN spectra = DOMAIN parameters
          /\ \A i \in DOMAIN spectra :
                /\ spectra[i].pars = parameters[i]
                /\ spectra[i] = f(parameters[i])
    /\ (pcS = "done" /\ ~SomeSetRaises) => outcomeS = "returned"

C19_Witness ==
    /\ pcS = "done" /\ outcomeS = "returned" /\ n_cores_s > 1
    /\ Len(parameters) = 2 /\ parameters[1] # parameters[2]
    /\ spectra[1].power # spectra[2].power
    /\ finish_order = <<2, 1>>

\* C20: when the evaluation of any parameter set raises, the call raises
\* and returns no partial catalogue, on the sequential and on the parallel
\* path; a catalogue returned is never shorter than the input list.
C20_AllOrNothing ==
    pcS = "done" =>
        /\ SomeSetRaises => (outcomeS = "raised" /\ spectra = <<>>)
        /\ outcomeS = "returned" => Len(spectra) = Len(parameters)

C20_Witness ==
    /\ pcS = "done" /\ outcomeS = "raised" /\ n_cores_s > 1
    /\ Len(collected) >= 1 /\ spectra = <<>>
    /\ futures[Len(collected) + 1] = "raised"

\* ------------------------------------------------------- forward models
\* model_turbulence (bin/model_turbulence.py) and model_bedload
\* (pyseis/model_bedload.py).  A float is a fraction num/den, with 1/0 for
\* inf and 0/0 for nan.  An argument left at None is <<>>, a given one <<v>>.
\* The results of the closed-form float expressions of one grain diameter
\* (the density before normalisation, the critical Shields stress, the fall
\* velocity, the hop height and the hop velocity before the caps) are part
\* of the call: the model carries them as the floats the expressions return.

\* the frequency argument: a tuple or an ndarray, of two or of three values
FArgs ==
    {[kind |-> k, vals |-> v] : k \in {"tuple", "array"},
                                v \in {<<1, 3>>, <<1, 2, 4>>}}

\* the floats of one grain diameter: (t_s / t_s_c) ** 0.5 is nan for a nan
\* stress and inf for a zero stress, so are h_b and u_b before the caps
GrainFloats ==
    {[p |-> 1, t_s_c |-> Frac(1, 1), w_st |-> Frac(1, 1), h_b |-> hu[1], u_b |-> hu[2]] :
        hu \in {<<Frac(1, 1), Frac(1, 1)>>, <<Frac(2, 1), Frac(2, 1)>>,
                 <<Frac(3, 1), Frac(3, 1)>>, <<Frac(3, 1), Frac(1, 1)>>}}
    \cup {[p |-> v, t_s_c |-> Frac(1, 1), w_st |-> Frac(1, 1),
           h_b |-> Frac(1, 1), u_b |-> Frac(3, 1)] : v \in {NaN, 0, 2}}
    \cup {[p |-> 1, t_s_c |-> Frac(0, 1), w_st |-> Frac(1, 1), h_b |-> InfF, u_b |-> InfF],
          [p |-> 1, t_s_c |-> NaNF, w_st |-> Frac(1, 1), h_b |-> NaNF, u_b |-> NaNF],
          [p |-> 1, t_s_c |-> Frac(1, 1), w_st |-> Frac(0, 1),
           h_b |-> Frac(1, 1), u_b |-> Frac(1, 1)]}

\* the calls: model_turbulence with q_0, f_0, v_0 zero or not, model_bedload
\* with or without gsd, d_s, s_s; h_w is the flow depth and u_m the mean flow
\* velocity that line 171 derives from it
ForwardCalls ==
    {[model |-> "turbulence", f |-> fa, res |-> n, q_0 |-> q, f_0 |-> f0, v_0 |-> v,
      gsd |-> FALSE, d_s |-> <<1>>, s_s |-> <<1>>, adjust |-> FALSE, grains |-> <<>>,
      h_w |-> Frac(2, 1), u_m |-> Frac(2, 1)] :
        fa \in FArgs, n \in 1..MaxRes, q \in {0, 1}, f0 \in {0, 1}, v \in {0, 1}}
    \cup
    {[model |-> "bedload", f |-> fa, res |-> n, q_0 |-> 1, f_0 |-> 1, v_0 |-> 1,
      gsd |-> tab, d_s |-> ds, s_s |-> ss, adjust |-> adj, grains |-> gr,
      h_w |-> Frac(2, 1), u_m |-> Frac(2, 1)] :
        fa \in FArgs, n \in 1..MaxRes, tab \in BOOLEAN, ds \in {<<>>, <<1>>},
        ss \in {<<>>, <<1>>}, adj \in BOOLEAN, gr \in [1..MaxDiam -> GrainFloats]}

InitFwd ==
    /\ fm_call \in ForwardCalls
    /\ d_s = fm_call.d_s /\ x_log = <<>> /\ p_s = <<>> /\ h_b = <<>> /\ u_b = <<>>
    /\ frequency = <<>> /\ psd_f = <<>> /\ outcomeM = "none" /\ pcM = "call"
    /\ IdleInv /\ IdleSpectra /\ IdleFit /\ IdleAmp /\ IdleDist /\ IdlePmax /\ IdleFpar

\* np.linspace(a, b, n)
Linspace(a, b, n) ==
    [k \in 1..n |-> IF n = 1 THEN Frac(a, 1)
                    ELSE Frac(a * (n - 1) + (k - 1) * (b - a), n - 1)]

\* np.array(f)
NpArray(v) == [k \in DOMAIN v |-> Frac(v[k], 1)]

\* model_turbulence: "Define frequency vector"
f_seq(call) ==
    IF call.f.kind = "tuple" /\ Len(call.f.vals) = 2
    THEN Linspace(call.f.vals[1], call.f.vals[2], call.res)
    ELSE NpArray(call.f.vals)

\* model_bedload: f_i = np.linspace(f[0], f[1], res)
f_i(call) == Linspace(call.f.vals[1], call.f.vals[2], call.res)

FrequencySequence ==
    /\ pcM = "call" /\ fm_call.model = "turbulence"
    /\ frequency' = f_seq(fm_call)
    /\ pcM' = "power"
    /\ UNCHANGED <<fm_call, d_s, x_log, p_s, h_b, u_b, psd_f, outcomeM>>
    /\ UNCHANGED <<invVars, spectraVars, fitVars, ampVars, distVars, pmaxVars, fparVars>>

\* beta: a positive ndarray over v_0 * q_0 * f_0 ** (p_0 - e_0); numpy
\* returns inf for a zero divisor
beta(call) == FDiv(Frac(1, 1), Frac(call.v_0 * call.q_0 * call.f_0, 1))

\* psi: 2 log(1 + 1/beta) exp(-2 beta) + (1 - exp(-beta)) exp(-beta)
\* sqrt(2 pi / beta) is 0 at beta = inf and positive at a finite beta
psi(b) == IF IsFinite(b) THEN 1 ELSE 0

\* ((1 + p_0)**2) / ((f_0**(5 * p_0)) * v_0**5) divides two Python floats:
\* a zero divisor raises ZeroDivisionError
ScalarTermRaises(call) == call.f_0 * call.v_0 = 0

SpectralPower ==
    /\ pcM = "power"
    /\ IF ScalarTermRaises(fm_call)
       THEN outcomeM' = "ZeroDivisionError" /\ UNCHANGED psd_f
       ELSE /\ outcomeM' = "returned"
            /\ psd_f' = [k \in DOMAIN frequency |-> Frac(psi(beta(fm_call)), 1)]
    /\ pcM' = "done"
    /\ UNCHANGED <<fm_call, d_s, x_log, p_s, h_b, u_b, frequency>>
    /\ UNCHANGED <<invVars, spectraVars, fitVars, ampVars, distVars, pmaxVars, fparVars>>

\* ---------------------------------------------------------- model_bedload
\* x + y and x * y of two non-negative floats
FAdd(x, y) ==
    IF IsNaNF(x) \/ IsNaNF(y) THEN NaNF
    ELSE IF ~IsFinite(x) \/ ~IsFinite(y) THEN InfF
    ELSE Frac(x.num * y.den + y.num * x.den, x.den * y.den)
FMul(x, y) ==
    IF IsNaNF(x) \/ IsNaNF(y) THEN NaNF
    ELSE IF ~IsFinite(x) \/ ~IsFinite(y)
         THEN (IF (IsFinite(x) /\ x.num = 0) \/ (IsFinite(y) /\ y.num = 0)
               THEN NaNF ELSE InfF)
    ELSE Frac(x.num * y.num, x.den * y.den)

\* np.sum of a vector of floats
RECURSIVE NpSum(_)
NpSum(v) == IF v = <<>> THEN Frac(0, 1) ELSE FAdd(v[1], NpSum(Tail(v)))

\* the elements of an index set in rising order (boolean-mask indexing)
RECURSIVE Rising(_)
Rising(S) == IF S = {} THEN <<>> ELSE <<Min(S)>> \o Rising(S \ {Min(S)})

\* np.diff(x_log, prepend=x_log[0]); x_log holds positions on the
\* np.logspace grid, position k standing for the diameter 2^(k-1)
Diff(x) ==
    [i \in DOMAIN x |-> IF i = 1 THEN 0 ELSE Pow(2, x[i] - 1) - Pow(2, x[i - 1] - 1)]

\* lines 135-143: k_s = kwargs.get("k_s", 3 * d_s) evaluates 3 * d_s
Defaults ==
    /\ pcM = "call" /\ fm_call.model = "bedload"
    /\ IF fm_call.d_s = <<>>
       THEN outcomeM' = "TypeError" /\ pcM' = "done"
       ELSE pcM' = "gsd" /\ UNCHANGED outcomeM
    /\ UNCHANGED <<fm_call, d_s, x_log, p_s, h_b, u_b, frequency, psd_f>>
    /\ UNCHANGED <<invVars, spectraVars, fitVars, ampVars, distVars, pmaxVars, fparVars>>

\* lines 148-156: the raised-cosine densities that are > 0, scaled by their
\* plain sum unless adjust is set
ParametricByStep(grains, adjust) ==
    LET x == Rising({k \in DOMAIN grains : ~IsNaN(grains[k].p) /\ grains[k].p > 0})
        dens == [i \in DOMAIN x |-> Frac(grains[x[i]].p, 1)]
        f_density == NpSum([i \in DOMAIN x |-> FMul(dens[i], Frac(Diff(x)[i], 1))])
    IN  [x_log |-> x,
         p_s |-> IF adjust THEN dens
                 ELSE [i \in DOMAIN x |-> FDiv(dens[i], f_density)]]

Parametric(grains, adjust) ==
    LET x == Rising({k \in DOMAIN grains : ~IsNaN(grains[k].p) /\ grains[k].p > 0})
        dens == [i \in DOMAIN x |-> Frac(grains[x[i]].p, 1)]
    IN  [x_log |-> x,
         p_s |-> IF adjust THEN dens
                 ELSE [i \in DOMAIN x |-> FDiv(dens[i], NpSum(dens))]]

\* lines 161-166: the interpolated table without its nan, scaled by its
\* Riemann sum f_density
Empirical(grains) ==
    LET x == Rising({k \in DOMAIN grains : ~IsNaN(grains[k].p)})
        dens == [i \in DOMAIN x |-> Frac(grains[x[i]].p, 1)]
        f_density == NpSum([i \in DOMAIN x |-> FMul(dens[i], Frac(Diff(x)[i], 1))])
    IN  [x_log |-> x, p_s |-> [i \in DOMAIN x |-> FDiv(dens[i], f_density)]]

\* |np.cumsum(p_s) - 0.5| at index i, and np.argmin of it: the first nan
\* if there is one, else the first smallest
ArgMinHalf(ps) ==
    LET HalfGap(i) ==
            LET c == NpSum(SubSeq(ps, 1, i))
            IN  IF ~IsFinite(c) THEN c
                ELSE IF 2 * c.num >= c.den THEN Frac(2 * c.num - c.den, 2 * c.den)
                ELSE Frac(c.den - 2 * c.num, 2 * c.den)
        nans == {i \in DOMAIN ps : IsNaNF(HalfGap(i))}
    IN  IF nans # {} THEN Min(nans)
        ELSE Min({i \in DOMAIN ps :
                    \A j \in DOMAIN ps : ~FLess(HalfGap(j), HalfGap(i))})

GrainSizeDistribution ==
    /\ pcM = "gsd"
    /\ IF ~fm_call.gsd
       THEN IF fm_call.s_s = <<>>
            THEN /\ x_log' = [k \in 1..MaxDiam |-> k]
                 /\ outcomeM' = "TypeError" /\ pcM' = "done"
                 /\ UNCHANGED <<p_s, d_s>>
            ELSE /\ x_log' = Parametric(fm_call.grains, fm_call.adjust).x_log
                 /\ p_s' = Parametric(fm_call.grains, fm_call.adjust).p_s
                 /\ pcM' = "physics"
                 /\ UNCHANGED <<outcomeM, d_s>>
       ELSE LET e == Empirical(fm_call.grains)
            IN  /\ x_log' = e.x_log /\ p_s' = e.p_s
                /\ IF e.x_log = <<>>
                   THEN outcomeM' = "ValueError" /\ pcM' = "done" /\ UNCHANGED d_s
                   ELSE /\ d_s' = <<Pow(2, e.x_log[ArgMinHalf(e.p_s)] - 1)>>
                        /\ pcM' = "physics" /\ UNCHANGED outcomeM
    /\ UNCHANGED <<fm_call, h_b, u_b, frequency, psd_f>>
    /\ UNCHANGED <<invVars, spectraVars, fitVars, ampVars, distVars, pmaxVars, fparVars>>

\* h_b[h_b > h_w] = h_w
Cap(v, cap) == IF FLess(cap, v) THEN cap ELSE v

\* lines 169-218: the flow, the frequency vector and the per-diameter terms;
\* no value is tested, whatever t_s_c and w_st are
Saltation ==
    /\ pcM = "physics"
    /\ frequency' = f_i(fm_call)
    /\ h_b' = [i \in DOMAIN x_log |-> Cap(fm_call.grains[x_log[i]].h_b, fm_call.h_w)]
    /\ u_b' = [i \in DOMAIN x_log |-> Cap(fm_call.grains[x_log[i]].u_b, fm_call.u_m)]
    /\ pcM' = "psd"
    /\ UNCHANGED <<fm_call, d_s, x_log, p_s, psd_f, outcomeM>>
    /\ UNCHANGED <<invVars, spectraVars, fitVars, ampVars, distVars, pmaxVars, fparVars>>

\* psd_raw of one diameter: w_st = 0 makes c_d inf and w_s = inf * 0 = nan;
\* a nan h_b, u_b or w_st stays nan; else a positive float
psd_raw(i) ==
    LET w == fm_call.grains[x_log[i]].w_st
    IN  IF IsNaNF(h_b[i]) \/ IsNaNF(u_b[i]) \/ IsNaNF(w) \/ w.num = 0
        THEN NaNF ELSE Frac(1, 1)

\* calculate_psd: np.sum(p_s * psd_raw * n_0**2 [* np.diff(x_log, ...)])
calculate_psd ==
    NpSum([i \in DOMAIN x_log |->
             IF fm_call.adjust
             THEN FMul(FMul(p_s[i], psd_raw(i)), Frac(Diff(x_log)[i], 1))
             ELSE FMul(p_s[i], psd_raw(i))])

\* lines 220-245
BedloadSpectrum ==
    /\ pcM = "psd"
    /\ psd_f' = [k \in DOMAIN frequency |-> calculate_psd]
    /\ outcomeM' = "returned" /\ pcM' = "done"
    /\ UNCHANGED <<fm_call, d_s, x_log, p_s, h_b, u_b, frequency>>
    /\ UNCHANGED <<invVars, spectraVars, fitVars, ampVars, distVars, pmaxVars, fparVars>>

NextFwd ==
    \/ FrequencySequence
    \/ SpectralPower
    \/ Defaults
    \/ GrainSizeDistribution
    \/ Saltation
    \/ BedloadSpectrum

SpecFwd == InitFwd /\ [][NextFwd]_vars

\* ------------------------------------------- properties of the forward models
FwdReturned == pcM = "done" /\ outcomeM = "returned"

\* C21: a frequency argument of two elements becomes res points from the
\* first to the second element, one of more than two elements is the
\* frequency vector as given, and frequency and power have equal length.
C21_FrequencyVectorContract ==
    FwdReturned =>
        LET v == fm_call.f.vals
            n == fm_call.res
        IN  /\ Len(v) = 2 =>
                /\ Len(frequency) = n
                /\ FEq(frequency[1], Frac(v[1], 1))
                /\ n >= 2 => FEq(frequency[n], Frac(v[2], 1))
            /\ Len(v) > 2 =>
                /\ Len(frequency) = Len(v)
                /\ \A k \in DOMAIN v : FEq(frequency[k], Frac(v[k], 1))
            /\ Len(frequency) = Len(psd_f)

\* the parametric distribution of a call with adjust=False has been built
ParametricBuilt ==
    /\ fm_call # <<>> /\ fm_call.model = "bedload"
    /\ ~fm_call.gsd /\ ~fm_call.adjust
    /\ pcM \in {"physics", "psd"} \/ FwdReturned

\* sum of p_s * np.diff(x_log, prepend=x_log[0])
RiemannSum == NpSum([i \in DOMAIN x_log |-> FMul(p_s[i], Frac(Diff(x_log)[i], 1))])

NonNegative(x) == IsFinite(x) /\ x.num >= 0

NonPositive(x) == IsFinite(x) /\ x.num <= 0

\* the diameters of the support whose critical Shields stress or fall
\* velocity is not positive
Unphysical ==
    {i \in DOMAIN x_log : \/ NonPositive(fm_call.grains[x_log[i]].t_s_c)
                          \/ NonPositive(fm_call.grains[x_log[i]].w_st)}

\* C23: model_bedload returns no spectrum (it fails with a domain error)
\* when the critical Shields stress or the fall velocity of some diameter
\* of the support is non-positive.
C23_DomainErrorOnNonPositive ==
    (pcM = "done" /\ fm_call.model = "bedload" /\ Len(h_b) = Len(x_log)
     /\ Unphysical # {}) => outcomeM # "returned"

\* C24: model_turbulence returns no spectrum (it fails with a domain error)
\* when q_0, f_0 or v_0 is zero, and a spectrum it returns holds no inf
\* and no nan power.
C24_ZeroParameterRaises ==
    (pcM = "done" /\ fm_call.model = "turbulence") =>
        /\ (fm_call.q_0 = 0 \/ fm_call.f_0 = 0 \/ fm_call.v_0 = 0)
               => outcomeM # "returned"
        /\ outcomeM = "returned" => \A k \in DOMAIN psd_f : IsFinite(psd_f[k])

\* neither a parametric pair (d_s and s_s) nor a table
NoDistribution ==
    /\ fm_call.model = "bedload" /\ ~fm_call.gsd
    /\ fm_call.d_s = <<>> \/ fm_call.s_s = <<>>

\* C25: given neither a parametric pair nor a table, model_bedload fails,
\* and it fails before any model quantity is computed.
C25_FailsBeforeComputing ==
    (pcM = "done" /\ NoDistribution) =>
        /\ outcomeM \notin {"none", "returned"}
        /\ x_log = <<>> /\ p_s = <<>> /\ h_b = <<>> /\ u_b = <<>>
        /\ frequency = <<>> /\ psd_f = <<>>

\* x <= y for two floats: false when one of them is nan
FLeq(x, y) == ~IsNaNF(x) /\ ~IsNaNF(y) /\ ~FLess(y, x)

\* C26: for every diameter of the support the hop height used is at most
\* h_w and the hop velocity used at most u_m, and a value below its cap is
\* the value computed.
C26_HopsCapped ==
    (fm_call # <<>> /\ fm_call.model = "bedload" /\ (pcM = "psd" \/ FwdReturned)) =>
        \A i \in DOMAIN x_log :
            LET raw == fm_call.grains[x_log[i]]
            IN  /\ FLeq(h_b[i], fm_call.h_w)
                /\ FLeq(u_b[i], fm_call.u_m)
                /\ FLeq(raw.h_b, fm_call.h_w) => h_b[i] = raw.h_b
                /\ FLeq(raw.u_b, fm_call.u_m) => u_b[i] = raw.u_b

====
